---------------------------- MODULE Spec2Model ----------------------------
(***************************************************************************)
(* OrderNavigationSystem (navigation.py): a cursor over a two-level        *)
(* dataset of items, with per-item state and handler bookkeeping.          *)
(*                                                                         *)
(* Python lists are modelled as functions over 0..n-1 for the dataset and  *)
(* its groups (so that indices read as in the source) and as sequences for *)
(* an item's 'handlers' list (only append / remove / membership are used). *)
(* The item state None is the string "None"; an index result None of the   *)
(* search functions is NoIndex.                                            *)
(*                                                                         *)
(* last records the operation called last and the cursor it was called     *)
(* at; peer is the cursor and group_navigation flag of a second instance   *)
(* working on the same dataset, NoPeer while there is none.                *)
(***************************************************************************)
EXTENDS Integers, Sequences, FiniteSets, TLC

VARIABLES data, current_group, current_order, group_navigation, auto_print,
          last, peer

vars == <<data, current_group, current_order, group_navigation, auto_print,
          last, peer>>

----------------------------------------------------------------------------
(* Bounds of the model *)

MaxGroups == 2

MaxGroupLen == 3

MaxItems == 3

(* Items of a dataset on which runs of repeated calls are followed *)
MaxRunItems == 2

----------------------------------------------------------------------------
(* Values *)

handler_name == "John"

OtherHandler == "ZAC"

States == {"None", "view", "completed"}

NoIndex == 0 - 1

Size(f) == Cardinality(DOMAIN f)

(* The value of peer while the navigator is the only instance on the data *)
NoPeer == [group |-> NoIndex, order |-> NoIndex, group_navigation |-> FALSE]

----------------------------------------------------------------------------
(* Datasets handed to the constructor *)

ItemKinds ==
    { [state |-> "None",      handlers |-> <<>>],
      [state |-> "view",      handlers |-> <<OtherHandler>>],
      [state |-> "view",      handlers |-> <<>>],
      [state |-> "completed", handlers |-> <<>>],
      [state |-> "completed", handlers |-> <<OtherHandler>>],
      [state |-> "None",      handlers |-> <<OtherHandler>>],
      [state |-> "view",      handlers |-> <<handler_name>>] }

RECURSIVE SumTo(_, _)
SumTo(s, n) == IF n <= 0 THEN 0 ELSE s[n - 1] + SumTo(s, n - 1)

Shapes ==
    UNION { { s \in [0 .. n - 1 -> 1 .. MaxGroupLen] : SumTo(s, n) <= MaxItems }
            : n \in 1 .. MaxGroups }

DatasetsOf(s, kinds) ==
    { [g \in DOMAIN s |-> [i \in 0 .. s[g] - 1 |-> f[SumTo(s, g) + i]]]
      : f \in [0 .. SumTo(s, Size(s)) - 1 -> kinds] }

(* Items on which the navigator's own handler is not yet recorded *)
FreshKinds == { k \in ItemKinds : k.handlers # <<handler_name>> }

(* Items that satisfy the item invariant of the data model *)
WellFormed(item) ==
    /\ item.state = "None" => item.handlers = <<>>
    /\ (item.handlers # <<>> /\ item.state # "completed") => item.state = "view"

WellFormedKinds == { k \in ItemKinds : WellFormed(k) }

(* Datasets as a caller may supply them: possibly without groups, with     *)
(* empty groups, or with an item whose state is none of the permitted      *)
(* ones.  Every item is a dictionary with the keys and types the           *)
(* constructor also checks (lines 82-91, 94).                              *)
BadState == "bogus"

RawKinds == ItemKinds \cup { [state |-> BadState, handlers |-> <<>>] }

RawShapes ==
    UNION { { s \in [0 .. n - 1 -> 0 .. MaxGroupLen] : SumTo(s, n) <= MaxItems }
            : n \in 0 .. MaxGroups }

----------------------------------------------------------------------------
(* Claim / unclaim bookkeeping *)

get_current_item(d, g, o) == d[g][o]

In(h, hs) == \E k \in 1 .. Len(hs) : hs[k] = h

RECURSIVE Remove(_, _)
Remove(hs, h) ==
    IF hs = <<>> THEN <<>>
    ELSE IF Head(hs) = h THEN Tail(hs)
    ELSE <<Head(hs)>> \o Remove(Tail(hs), h)

(* view_item without the auto_print branch *)
view_item_never_completes(item, ap) ==
    LET hs == IF ~In(handler_name, item.handlers)
              THEN Append(item.handlers, handler_name)
              ELSE item.handlers
        st == IF item.state # "completed" THEN "view" ELSE item.state
    IN  [state |-> st, handlers |-> hs]

view_item(item, ap) ==
    LET hs == IF ~In(handler_name, item.handlers)
              THEN Append(item.handlers, handler_name)
              ELSE item.handlers
        st == IF ap THEN "completed"
              ELSE IF item.state # "completed" THEN "view"
              ELSE item.state
    IN  [state |-> st, handlers |-> hs]

view_current_item(d, g, o, ap) ==
    [d EXCEPT ![g][o] = view_item(@, ap)]

(* leave_item that forgets to remove the handler *)
leave_item_keeps_handler(item) ==
    LET hs == item.handlers
        st == IF hs = <<>> /\ item.state # "completed" THEN "None"
              ELSE item.state
    IN  [state |-> st, handlers |-> hs]

(* leave_item that resets the state although other handlers remain *)
leave_item_resets_held(item) ==
    LET hs == IF In(handler_name, item.handlers)
              THEN Remove(item.handlers, handler_name)
              ELSE item.handlers
        st == IF item.state # "completed" THEN "None" ELSE item.state
    IN  [state |-> st, handlers |-> hs]

(* leave_item that resets a completed item as well *)
leave_item_downgrades(item) ==
    LET hs == IF In(handler_name, item.handlers)
              THEN Remove(item.handlers, handler_name)
              ELSE item.handlers
        st == IF hs = <<>> THEN "None" ELSE item.state
    IN  [state |-> st, handlers |-> hs]

(* leave_item that removes the handler but never resets the state *)
leave_item_keeps_state(item) ==
    LET hs == IF In(handler_name, item.handlers)
              THEN Remove(item.handlers, handler_name)
              ELSE item.handlers
    IN  [state |-> item.state, handlers |-> hs]

leave_item(item) ==
    LET hs == IF In(handler_name, item.handlers)
              THEN Remove(item.handlers, handler_name)
              ELSE item.handlers
        st == IF hs = <<>> /\ item.state # "completed" THEN "None"
              ELSE item.state
    IN  [state |-> st, handlers |-> hs]

leave_current_item(d, g, o) ==
    [d EXCEPT ![g][o] = leave_item(@)]

----------------------------------------------------------------------------
(* In-group index selection *)

(* for i in range(o, len(group)): the first i whose state is / is not 'view' *)
RECURSIVE scan_forward(_, _, _, _)
scan_forward(d, g, i, wantView) ==
    IF i >= Size(d[g]) THEN NoIndex
    ELSE IF (d[g][i].state = "view") = wantView THEN i
    ELSE scan_forward(d, g, i + 1, wantView)

(* next_item_index that searches by state in manual mode too *)
next_item_index_by_state(d, g, o, ap) ==
    LET first == scan_forward(d, g, o + 1, FALSE)
    IN  IF first # NoIndex THEN first
        ELSE scan_forward(d, g, o + 1, TRUE)

next_item_index(d, g, o, ap) ==
    IF ~ap
    THEN IF o < Size(d[g]) - 1 THEN o + 1 ELSE NoIndex
    ELSE LET first == scan_forward(d, g, o + 1, FALSE)
         IN  IF first # NoIndex THEN first
             ELSE scan_forward(d, g, o + 1, TRUE)

(* for i in range(o, -1, -1): the first i whose state is / is not 'view' *)
RECURSIVE scan_backward(_, _, _, _)
scan_backward(d, g, i, wantView) ==
    IF i < 0 THEN NoIndex
    ELSE IF (d[g][i].state = "view") = wantView THEN i
    ELSE scan_backward(d, g, i - 1, wantView)

(* previous_item_index that steps from index 0 to index -1, the last item *)
previous_item_index_wraps(d, g, o, ap) ==
    IF ~ap
    THEN IF o > 0 THEN o - 1 ELSE Size(d[g]) - 1
    ELSE LET first == scan_backward(d, g, o - 1, FALSE)
         IN  IF first # NoIndex THEN first
             ELSE scan_backward(d, g, o - 1, TRUE)

previous_item_index(d, g, o, ap) ==
    IF ~ap
    THEN IF o > 0 THEN o - 1 ELSE NoIndex
    ELSE LET first == scan_backward(d, g, o - 1, FALSE)
         IN  IF first # NoIndex THEN first
             ELSE scan_backward(d, g, o - 1, TRUE)

----------------------------------------------------------------------------
(* Entering an adjacent group *)

Taken(item) == item.state = "view" \/ item.state = "completed"

RECURSIVE skip_forward(_, _, _)
skip_forward(d, g, o) ==
    IF o < Size(d[g]) /\ Taken(d[g][o]) THEN skip_forward(d, g, o + 1) ELSE o

(* enter_next_group without the reset to index 0 after a full skip *)
enter_next_group_no_fallback(d, g) == skip_forward(d, g, 0)

enter_next_group(d, g) ==
    LET o == skip_forward(d, g, 0)
    IN  IF o >= Size(d[g]) THEN 0 ELSE o

RECURSIVE skip_backward(_, _, _)
skip_backward(d, g, o) ==
    IF o >= 0 /\ Taken(d[g][o]) THEN skip_backward(d, g, o - 1) ELSE o

(* enter_previous_group that never skips *)
enter_previous_group_at_end(d, g) == Size(d[g]) - 1

enter_previous_group(d, g) ==
    LET o == skip_backward(d, g, Size(d[g]) - 1)
    IN  IF o < 0 THEN Size(d[g]) - 1 ELSE o

----------------------------------------------------------------------------
(* Operations: each yields the cursor and dataset it leaves behind *)

Landing(d, g, o, ap) ==
    [data |-> view_current_item(d, g, o, ap), group |-> g, order |-> o]

(* next_item that crosses groups in auto-print mode only *)
next_item_crosses_in_auto_only(d, g, o, gn, ap) ==
    LET d1 == leave_current_item(d, g, o)
        next_index == next_item_index(d1, g, o, ap)
    IN  IF next_index # NoIndex THEN Landing(d1, g, next_index, ap)
        ELSE IF ap /\ gn /\ g < Size(d) - 1
             THEN Landing(d1, g + 1, enter_next_group(d1, g + 1), ap)
             ELSE Landing(d1, g, o, ap)

(* next_item that crosses groups whatever group_navigation says *)
next_item_ignores_group_navigation(d, g, o, gn, ap) ==
    LET d1 == leave_current_item(d, g, o)
        next_index == next_item_index(d1, g, o, ap)
    IN  IF next_index # NoIndex THEN Landing(d1, g, next_index, ap)
        ELSE IF g < Size(d) - 1
             THEN Landing(d1, g + 1, enter_next_group(d1, g + 1), ap)
             ELSE Landing(d1, g, o, ap)

(* next_item that never enters the next group *)
next_item_stays_in_group(d, g, o, gn, ap) ==
    LET d1 == leave_current_item(d, g, o)
        i  == next_item_index(d1, g, o, ap)
    IN  IF i # NoIndex THEN Landing(d1, g, i, ap) ELSE Landing(d1, g, o, ap)

next_item(d, g, o, gn, ap) ==
    LET d1 == leave_current_item(d, g, o)
        next_index == next_item_index(d1, g, o, ap)
    IN  IF next_index # NoIndex THEN Landing(d1, g, next_index, ap)
        ELSE IF gn /\ g < Size(d) - 1
             THEN Landing(d1, g + 1, enter_next_group(d1, g + 1), ap)
             ELSE Landing(d1, g, o, ap)

(* previous_item that crosses groups whatever group_navigation says *)
previous_item_ignores_group_navigation(d, g, o, gn, ap) ==
    LET d1 == leave_current_item(d, g, o)
        prev_index == previous_item_index(d1, g, o, ap)
    IN  IF prev_index # NoIndex THEN Landing(d1, g, prev_index, ap)
        ELSE IF g > 0
             THEN Landing(d1, g - 1, enter_previous_group(d1, g - 1), ap)
             ELSE Landing(d1, g, o, ap)

previous_item(d, g, o, gn, ap) ==
    LET d1 == leave_current_item(d, g, o)
        prev_index == previous_item_index(d1, g, o, ap)
    IN  IF prev_index # NoIndex THEN Landing(d1, g, prev_index, ap)
        ELSE IF gn /\ g > 0
             THEN Landing(d1, g - 1, enter_previous_group(d1, g - 1), ap)
             ELSE Landing(d1, g, o, ap)

(* next_page that resets current_order outside the branch *)
next_page_resets_order(d, g, o, ap) ==
    LET d1 == leave_current_item(d, g, o)
    IN  IF g < Size(d) - 1
        THEN Landing(d1, g + 1, enter_next_group(d1, g + 1), ap)
        ELSE Landing(d1, g, 0, ap)

next_page(d, g, o, ap) ==
    LET d1 == leave_current_item(d, g, o)
    IN  IF g < Size(d) - 1
        THEN Landing(d1, g + 1, enter_next_group(d1, g + 1), ap)
        ELSE Landing(d1, g, o, ap)

previous_page(d, g, o, ap) ==
    LET d1 == leave_current_item(d, g, o)
    IN  IF g > 0
        THEN Landing(d1, g - 1, enter_previous_group(d1, g - 1), ap)
        ELSE Landing(d1, g, o, ap)

(* for i in range(len(group)): the first i neither 'view' nor 'completed' *)
RECURSIVE first_free(_, _, _)
first_free(d, g, i) ==
    IF i >= Size(d[g]) THEN NoIndex
    ELSE IF ~Taken(d[g][i]) THEN i
    ELSE first_free(d, g, i + 1)

(* continue_item that scans from the cursor instead of the group's start *)
continue_item_from_cursor(d, g, o, ap) ==
    LET d1 == leave_current_item(d, g, o)
        free == first_free(d1, g, o)
        viewed == scan_forward(d1, g, o, TRUE)
    IN  IF free # NoIndex THEN Landing(d1, g, free, ap)
        ELSE IF viewed # NoIndex THEN Landing(d1, g, viewed, ap)
        ELSE Landing(d1, g, o, ap)

continue_item(d, g, o, ap) ==
    LET d1 == leave_current_item(d, g, o)
        free == first_free(d1, g, 0)
        viewed == scan_forward(d1, g, 0, TRUE)
    IN  IF free # NoIndex THEN Landing(d1, g, free, ap)
        ELSE IF viewed # NoIndex THEN Landing(d1, g, viewed, ap)
        ELSE Landing(d1, g, o, ap)

(* mark_current_item_as_complete that also releases the item *)
mark_current_item_as_complete_clears(d, g, o) ==
    [d EXCEPT ![g][o] = [state |-> "completed", handlers |-> <<>>]]

mark_current_item_as_complete(d, g, o) ==
    [d EXCEPT ![g][o].state = "completed"]

----------------------------------------------------------------------------
(* A second instance on the same dataset.  The class reads and writes      *)
(* handler names only through self.handler_name (lines 66, 99-100,         *)
(* 108-109), so an instance created with OtherHandler does to a dataset    *)
(* what the instance created with handler_name does to the dataset with    *)
(* the two names exchanged.                                                *)

ExchangeName(h) ==
    IF h = handler_name THEN OtherHandler
    ELSE IF h = OtherHandler THEN handler_name
    ELSE h

RECURSIVE ExchangeNames(_)
ExchangeNames(hs) ==
    IF hs = <<>> THEN <<>>
    ELSE <<ExchangeName(Head(hs))>> \o ExchangeNames(Tail(hs))

AsPeer(d) ==
    [g \in DOMAIN d |->
        [i \in DOMAIN d[g] |->
            [state |-> d[g][i].state,
             handlers |-> ExchangeNames(d[g][i].handlers)]]]

(* What an operation of the peer, given by its outcome r on the dataset    *)
(* as the peer sees it, leaves behind                                      *)
ByPeer(r) == [data |-> AsPeer(r.data), group |-> r.group, order |-> r.order]

----------------------------------------------------------------------------
(* start and the resets.  The tests and the command-line driver call       *)
(* start, reset_current_item, reset_current_group and reset_all            *)
(* (test_navigation.py 101, 187-190, 211, 245; use_nav.py); their bodies   *)
(* are not part of navigation.py, so they follow the written description   *)
(* of the operations.                                                      *)

(* start(g) for an existing group g: leave the current item, go to (g, 0), *)
(* view the item there *)
start(d, g, o, target, ap) ==
    Landing(leave_current_item(d, g, o), target, 0, ap)

(* reset_item that only withdraws the navigator's own handler *)
reset_item_own_handler(item) ==
    [state |-> "None", handlers |-> Remove(item.handlers, handler_name)]

reset_item(item) == [state |-> "None", handlers |-> <<>>]

reset_current_item(d, g, o) == [d EXCEPT ![g][o] = reset_item(@)]

reset_current_group(d, g) ==
    [d EXCEPT ![g] = [i \in DOMAIN @ |-> reset_item(@[i])]]

reset_all(d) ==
    [g \in DOMAIN d |-> [i \in DOMAIN d[g] |-> reset_item(d[g][i])]]

----------------------------------------------------------------------------
(* Construction *)

(* get_current_item raises ValueError *)
get_current_item_raises(d, g) ==
    \/ Size(d) = 0
    \/ Size(d) = 1 /\ Size(d[0]) = 0
    \/ g \notin DOMAIN d
    \/ Size(d[g]) = 0

(* the checks of __init__ after the first item has been viewed raise *)
validation_raises(d) ==
    \/ Size(d) = 0
    \/ \E g \in DOMAIN d : \E i \in DOMAIN d[g] : d[g][i].state \notin States

(* construct that starts on the last item of the first group *)
construct_starts_at_end(d, ap) ==
    IF get_current_item_raises(d, 0)
    THEN [raised |-> TRUE, data |-> d, group |-> 0, order |-> 0]
    ELSE LET d1 == view_current_item(d, 0, Size(d[0]) - 1, ap)
         IN  [raised |-> validation_raises(d1), data |-> d1,
              group |-> 0, order |-> Size(d[0]) - 1]

construct(d, ap) ==
    IF get_current_item_raises(d, 0)
    THEN [raised |-> TRUE, data |-> d, group |-> 0, order |-> 0]
    ELSE LET d1 == view_current_item(d, 0, 0, ap)
         IN  [raised |-> validation_raises(d1), data |-> d1,
              group |-> 0, order |-> 0]

----------------------------------------------------------------------------
(* State machine *)

Before(op) == [op |-> op, group |-> current_group, order |-> current_order]

InitWith(kinds) ==
    /\ group_navigation \in BOOLEAN
    /\ auto_print \in BOOLEAN
    /\ current_group = 0
    /\ current_order = 0
    /\ \E s \in Shapes : \E d \in DatasetsOf(s, kinds) :
          data = view_current_item(d, 0, 0, auto_print)
    /\ last = [op |-> "init", group |-> 0, order |-> 0]
    /\ peer = NoPeer

Init == InitWith(ItemKinds)

Move(r, op) ==
    /\ data' = r.data
    /\ current_group' = r.group
    /\ current_order' = r.order
    /\ last' = Before(op)
    /\ UNCHANGED <<group_navigation, auto_print, peer>>

NextItem ==
    Move(next_item(data, current_group, current_order, group_navigation,
                   auto_print), "next_item")

PreviousItem ==
    Move(previous_item(data, current_group, current_order, group_navigation,
                       auto_print), "previous_item")

NextPage ==
    Move(next_page(data, current_group, current_order, auto_print),
         "next_page")

PreviousPage ==
    Move(previous_page(data, current_group, current_order, auto_print),
         "previous_page")

ContinueItem ==
    Move(continue_item(data, current_group, current_order, auto_print),
         "continue_item")

(* toggle_autoprint that also views the current item again in the new mode *)
ToggleAutoprintReviews ==
    /\ auto_print' = ~auto_print
    /\ data' = view_current_item(data, current_group, current_order, ~auto_print)
    /\ last' = Before("toggle_autoprint")
    /\ UNCHANGED <<current_group, current_order, group_navigation, peer>>

ToggleAutoprint ==
    /\ auto_print' = ~auto_print
    /\ last' = Before("toggle_autoprint")
    /\ UNCHANGED <<data, current_group, current_order, group_navigation,
                   peer>>

ToggleGroupNavigation ==
    /\ group_navigation' = ~group_navigation
    /\ last' = Before("toggle_group_navigation")
    /\ UNCHANGED <<data, current_group, current_order, auto_print, peer>>

MarkCurrentItemAsComplete ==
    /\ data' = mark_current_item_as_complete(data, current_group, current_order)
    /\ last' = Before("mark_current_item_as_complete")
    /\ UNCHANGED <<current_group, current_order, group_navigation, auto_print,
                   peer>>

Next ==
    \/ NextItem
    \/ PreviousItem
    \/ NextPage
    \/ PreviousPage
    \/ ContinueItem
    \/ ToggleAutoprint
    \/ ToggleGroupNavigation
    \/ MarkCurrentItemAsComplete

Spec == Init /\ [][Next]_vars

(* The constructor alone, over supplied datasets of any shape: last.op is  *)
(* "supplied" before the call, "init" once a navigator exists and          *)
(* "init_raised" when the constructor raised.                              *)
InitSupplied ==
    /\ group_navigation \in BOOLEAN
    /\ auto_print \in BOOLEAN
    /\ current_group = 0
    /\ current_order = 0
    /\ \E s \in RawShapes : data \in DatasetsOf(s, RawKinds)
    /\ last = [op |-> "supplied", group |-> 0, order |-> 0]
    /\ peer = NoPeer

Construct ==
    /\ last.op = "supplied"
    /\ LET r == construct(data, auto_print)
       IN  /\ data' = r.data
           /\ current_group' = r.group
           /\ current_order' = r.order
           /\ last' = [op |-> IF r.raised THEN "init_raised" ELSE "init",
                       group |-> 0, order |-> 0]
    /\ UNCHANGED <<group_navigation, auto_print, peer>>

SpecConstruction == InitSupplied /\ [][Construct]_vars

(* start and the resets; start records the group it was asked for *)
Start ==
    \E target \in DOMAIN data :
        /\ LET r == start(data, current_group, current_order, target,
                          auto_print)
           IN  /\ data' = r.data
               /\ current_group' = r.group
               /\ current_order' = r.order
        /\ last' = [op |-> "start", group |-> current_group,
                    order |-> current_order, target |-> target]
        /\ UNCHANGED <<group_navigation, auto_print, peer>>

ResetCurrentItem ==
    /\ data' = reset_current_item(data, current_group, current_order)
    /\ last' = Before("reset_current_item")
    /\ UNCHANGED <<current_group, current_order, group_navigation, auto_print,
                   peer>>

ResetCurrentGroup ==
    /\ data' = reset_current_group(data, current_group)
    /\ last' = Before("reset_current_group")
    /\ UNCHANGED <<current_group, current_order, group_navigation, auto_print,
                   peer>>

ResetAll ==
    /\ data' = reset_all(data)
    /\ last' = Before("reset_all")
    /\ UNCHANGED <<current_group, current_order, group_navigation, auto_print,
                   peer>>

NextWithStartAndResets ==
    \/ Next
    \/ Start
    \/ ResetCurrentItem
    \/ ResetCurrentGroup
    \/ ResetAll

SpecStartAndResets == Init /\ [][NextWithStartAndResets]_vars

(* The same machine with a caller that keeps calling next_item: whenever   *)
(* a call of next_item would change the state, one is eventually made.     *)
InitShort ==
    /\ group_navigation \in BOOLEAN
    /\ auto_print \in BOOLEAN
    /\ current_group = 0
    /\ current_order = 0
    /\ \E s \in { t \in Shapes : SumTo(t, Size(t)) <= MaxRunItems } :
          \E d \in DatasetsOf(s, ItemKinds) :
             data = view_current_item(d, 0, 0, auto_print)
    /\ last = [op |-> "init", group |-> 0, order |-> 0]
    /\ peer = NoPeer

SpecNextItemRepeated == InitShort /\ [][Next]_vars /\ WF_vars(NextItem)

(* Two instances in manual mode on a dataset whose items all start with    *)
(* state None and no handlers.  The navigator is constructed first; the    *)
(* peer is constructed at any later moment; from then on the movement      *)
(* calls of the two interleave in any order, one whole call at a time.     *)
InitShared ==
    /\ InitWith({ [state |-> "None", handlers |-> <<>>] })
    /\ ~auto_print

PeerConstruct ==
    /\ peer = NoPeer
    /\ LET r == construct(AsPeer(data), FALSE)
       IN  /\ ~r.raised
           /\ data' = AsPeer(r.data)
           /\ \E gn \in BOOLEAN :
                 peer' = [group |-> r.group, order |-> r.order,
                          group_navigation |-> gn]
    /\ last' = [op |-> "peer_init", group |-> 0, order |-> 0]
    /\ UNCHANGED <<current_group, current_order, group_navigation, auto_print>>

PeerMove(r, op) ==
    /\ peer # NoPeer
    /\ data' = ByPeer(r).data
    /\ peer' = [peer EXCEPT !.group = ByPeer(r).group,
                            !.order = ByPeer(r).order]
    /\ last' = [op |-> op, group |-> peer.group, order |-> peer.order]
    /\ UNCHANGED <<current_group, current_order, group_navigation, auto_print>>

PeerNextItem ==
    PeerMove(next_item(AsPeer(data), peer.group, peer.order,
                       peer.group_navigation, FALSE), "peer_next_item")

PeerPreviousItem ==
    PeerMove(previous_item(AsPeer(data), peer.group, peer.order,
                           peer.group_navigation, FALSE),
             "peer_previous_item")

PeerNextPage ==
    PeerMove(next_page(AsPeer(data), peer.group, peer.order, FALSE),
             "peer_next_page")

PeerPreviousPage ==
    PeerMove(previous_page(AsPeer(data), peer.group, peer.order, FALSE),
             "peer_previous_page")

PeerContinueItem ==
    PeerMove(continue_item(AsPeer(data), peer.group, peer.order, FALSE),
             "peer_continue_item")

NextShared ==
    \/ NextItem
    \/ PreviousItem
    \/ NextPage
    \/ PreviousPage
    \/ ContinueItem
    \/ PeerConstruct
    \/ PeerNextItem
    \/ PeerPreviousItem
    \/ PeerNextPage
    \/ PeerPreviousPage
    \/ PeerContinueItem

SpecShared == InitShared /\ [][NextShared]_vars

(* The same machine over datasets that do not yet record the navigator *)
SpecFresh == InitWith(FreshKinds) /\ [][Next]_vars

(* The same machine over datasets whose items satisfy the item invariant *)
SpecWellFormed == InitWith(WellFormedKinds) /\ [][Next]_vars

----------------------------------------------------------------------------
(* Vocabulary of the properties *)

Movement ==
    {"next_item", "previous_item", "next_page", "previous_page", "continue_item"}

Toggles == {"toggle_autoprint", "toggle_group_navigation"}

Positions ==
    UNION { { <<g, i>> : i \in DOMAIN data[g] } : g \in DOMAIN data }

CurrentItem == get_current_item(data, current_group, current_order)

LeftItem == get_current_item(data, last.group, last.order)

CursorMoved == <<current_group, current_order>> # <<last.group, last.order>>

LastIndex(g) == Size(data[g]) - 1

(* The dataset as the in-group search of next_item / previous_item sees it *)
Unclaimed == leave_current_item(data, current_group, current_order)

Least(S) == CHOOSE i \in S : \A j \in S : i <= j

Greatest(S) == CHOOSE i \in S : \A j \in S : i >= j

WithState(d, g, range, st) == { i \in range : d[g][i].state = st }

----------------------------------------------------------------------------
(* C1: on a valid dataset the cursor always designates an existing item:   *)
(* 0 <= current_group < number of groups and 0 <= current_order < length   *)
(* of the current group, after construction and after every operation.     *)
C1_CursorInBounds ==
    /\ current_group \in 0 .. (Size(data) - 1)
    /\ current_order \in 0 .. (Size(data[current_group]) - 1)

(* next_item entered a two-item group whose items were all viewed or       *)
(* completed, ran off its end and fell back to index 0.                    *)
C1_Witness ==
    /\ last.op = "next_item"
    /\ ~auto_print
    /\ current_group = last.group + 1
    /\ current_order = 0
    /\ Size(data[current_group]) = 2
    /\ data[current_group][0].state = "completed"
    /\ Taken(data[current_group][1])

(* C2: when the dataset does not record the navigator's handler at         *)
(* construction, the handler is recorded on the item under the cursor and  *)
(* on no other item, after construction and after every operation.         *)
C2_HandlerOnlyOnCursor ==
    \A p \in Positions :
        In(handler_name, data[p[1]][p[2]].handlers)
            <=> (p = <<current_group, current_order>>)

(* continue_item moved the cursor off an item another handler also holds. *)
C2_Witness ==
    /\ last.op = "continue_item"
    /\ CursorMoved
    /\ LeftItem.handlers = <<OtherHandler>>
    /\ In(handler_name, CurrentItem.handlers)

(* C3: when every item of the supplied dataset satisfies it, every item    *)
(* always satisfies: state None implies no handlers, and handlers          *)
(* non-empty with state not completed implies state view.                  *)
C3_ItemsWellFormed ==
    \A p \in Positions : WellFormed(data[p[1]][p[2]])

(* The cursor left an item that another handler still holds: it stays     *)
(* 'view' instead of being reset.                                          *)
C3_Witness ==
    /\ last.op \in Movement
    /\ CursorMoved
    /\ LeftItem = [state |-> "view", handlers |-> <<OtherHandler>>]

(* C4: no movement operation and no toggle changes a completed item to     *)
(* None or view.                                                           *)
C4_CompletedSticky ==
    [][ last'.op \in Movement \cup Toggles =>
          \A p \in Positions :
              data[p[1]][p[2]].state = "completed"
                  => data'[p[1]][p[2]].state = "completed" ]_vars

(* In manual mode the cursor left a completed item on which it was the    *)
(* only handler, and the item is still completed.                          *)
C4_Witness ==
    /\ last.op \in Movement
    /\ ~auto_print
    /\ CursorMoved
    /\ LeftItem = [state |-> "completed", handlers |-> <<>>]

(* C5: after construction and after every movement operation, moved or     *)
(* not, the item under the cursor is completed when auto_print is on and   *)
(* view or completed (never None) when it is off.                          *)
C5_CursorItemClaimed ==
    last.op \in Movement \cup {"init"} =>
        IF auto_print THEN CurrentItem.state = "completed"
        ELSE CurrentItem.state \in {"view", "completed"}

(* next_item in auto-print mode that could not move: the item it stayed   *)
(* on is completed.                                                        *)
C5_Witness ==
    /\ last.op = "next_item"
    /\ auto_print
    /\ ~CursorMoved
    /\ CurrentItem.state = "completed"

(* C6: in auto-print mode the in-group forward search yields the nearest   *)
(* None item strictly after the cursor if there is one, otherwise the      *)
(* nearest view item strictly after it, otherwise no index; it never       *)
(* yields a completed item.                                                *)
C6_ForwardSearchAsClaimed ==
    auto_print =>
        LET after == (current_order + 1) .. LastIndex(current_group)
            unset == WithState(Unclaimed, current_group, after, "None")
            viewed == WithState(Unclaimed, current_group, after, "view")
            claimed == IF unset # {} THEN Least(unset)
                       ELSE IF viewed # {} THEN Least(viewed)
                       ELSE NoIndex
        IN  next_item_index(Unclaimed, current_group, current_order, TRUE)
                = claimed

(* C7: in auto-print mode the in-group backward search yields the nearest  *)
(* None item strictly before the cursor if there is one, otherwise the     *)
(* nearest view item, otherwise the nearest completed item, and no index   *)
(* only at index 0.                                                        *)
C7_BackwardSearchAsClaimed ==
    auto_print =>
        LET before == 0 .. (current_order - 1)
            unset == WithState(Unclaimed, current_group, before, "None")
            viewed == WithState(Unclaimed, current_group, before, "view")
            done == WithState(Unclaimed, current_group, before, "completed")
            claimed == IF unset # {} THEN Greatest(unset)
                       ELSE IF viewed # {} THEN Greatest(viewed)
                       ELSE IF done # {} THEN Greatest(done)
                       ELSE NoIndex
        IN  /\ previous_item_index(Unclaimed, current_group, current_order, TRUE)
                 = claimed
            /\ (claimed = NoIndex) => current_order = 0

(* C8: in manual mode next_item called off the last index moves the cursor *)
(* to exactly the next index, and previous_item called off index 0 to      *)
(* exactly the previous index, both within the same group, whatever the    *)
(* items' states and handlers.                                             *)
C8_ManualStep ==
    ~auto_print =>
        /\ (last.op = "next_item" /\ last.order < LastIndex(last.group))
              => /\ current_group = last.group
                 /\ current_order = last.order + 1
        /\ (last.op = "previous_item" /\ last.order > 0)
              => /\ current_group = last.group
                 /\ current_order = last.order - 1

(* Manual next_item stepped onto an item another handler has completed,   *)
(* with a free item further on.                                            *)
C8_Witness ==
    /\ last.op = "next_item"
    /\ ~auto_print
    /\ last.order = 0
    /\ LastIndex(last.group) = 2
    /\ current_order = 1
    /\ CurrentItem.state = "completed"
    /\ In(OtherHandler, CurrentItem.handlers)
    /\ data[current_group][2].state = "None"

(* C9: next_item / previous_item change current_group only when            *)
(* group_navigation is on, the in-group search yields no index and a       *)
(* next / previous group exists, and then by exactly +1 / -1; so with      *)
(* group_navigation off they never change it, in either mode.              *)
C9_GroupChangeOnlyByNavigation ==
    [][ /\ (last'.op = "next_item" /\ current_group' # current_group)
              => /\ group_navigation
                 /\ next_item_index(Unclaimed, current_group, current_order,
                                    auto_print) = NoIndex
                 /\ current_group < Size(data) - 1
                 /\ current_group' = current_group + 1
        /\ (last'.op = "previous_item" /\ current_group' # current_group)
              => /\ group_navigation
                 /\ previous_item_index(Unclaimed, current_group, current_order,
                                        auto_print) = NoIndex
                 /\ current_group > 0
                 /\ current_group' = current_group - 1
        /\ (last'.op \in {"next_item", "previous_item"} /\ ~group_navigation)
              => current_group' = current_group ]_vars

(* previous_item in auto-print mode crossed into the previous group.      *)
C9_Witness ==
    /\ last.op = "previous_item"
    /\ auto_print
    /\ group_navigation
    /\ current_group = last.group - 1

(* C10 as stated: in manual mode no call of next_item or previous_item     *)
(* changes current_group, whatever group_navigation is.                    *)
C10_ManualNeverChangesGroup ==
    (~auto_print /\ last.op \in {"next_item", "previous_item"})
        => current_group = last.group

(* C10 amended: in manual mode with group_navigation off, no call of       *)
(* next_item or previous_item changes current_group.                       *)
C10_ManualKeepsGroupWithoutNavigation ==
    (~auto_print /\ ~group_navigation
        /\ last.op \in {"next_item", "previous_item"})
        => current_group = last.group

(* Manual previous_item at index 0 of the second group with               *)
(* group_navigation off: the cursor stayed.                                *)
C10_Witness ==
    /\ last.op = "previous_item"
    /\ ~auto_print
    /\ ~group_navigation
    /\ last.group = 1
    /\ last.order = 0
    /\ current_group = 1
    /\ current_order = 0

(* C11: in manual mode with group_navigation on, next_item called at the   *)
(* last index of a group that has a successor whose first item is None     *)
(* moves the cursor to index 0 of the successor; called at the last index  *)
(* of the last group it leaves the cursor where it is.                     *)
C11_ManualCrossing ==
    [][ (last'.op = "next_item" /\ ~auto_print /\ group_navigation
            /\ current_order = LastIndex(current_group))
        => IF current_group < Size(data) - 1
           THEN data[current_group + 1][0].state = "None"
                   => /\ current_group' = current_group + 1
                      /\ current_order' = 0
           ELSE /\ current_group' = current_group
                /\ current_order' = current_order ]_vars

(* The end of the three-call scenario: on two one-item groups, manual     *)
(* next_item with group_navigation on, called at (1, 0), stayed there.     *)
C11_Witness ==
    /\ last.op = "next_item"
    /\ ~auto_print
    /\ group_navigation
    /\ Size(data) = 2
    /\ Size(data[0]) = 1
    /\ Size(data[1]) = 1
    /\ data[0][0] = [state |-> "None", handlers |-> <<>>]
    /\ <<last.group, last.order>> = <<1, 0>>
    /\ <<current_group, current_order>> = <<1, 0>>

(* C12: next_page raises current_group by exactly 1 whenever a next group  *)
(* exists and previous_page lowers it by exactly 1 whenever a previous     *)
(* group exists, whatever the two flags are; at the last group next_page,  *)
(* and at the first group previous_page, leave both cursor indices as      *)
(* they were.                                                              *)
C12_PageStep ==
    /\ last.op = "next_page" =>
          IF last.group < Size(data) - 1
          THEN current_group = last.group + 1
          ELSE ~CursorMoved
    /\ last.op = "previous_page" =>
          IF last.group > 0
          THEN current_group = last.group - 1
          ELSE ~CursorMoved

(* next_page called off index 0 in the last group, with group_navigation  *)
(* off: the cursor stayed on its index.                                    *)
C12_Witness ==
    /\ last.op = "next_page"
    /\ ~group_navigation
    /\ last.group = Size(data) - 1
    /\ last.order > 0
    /\ ~CursorMoved

(* C13: continue_item keeps current_group and, judging the items after the *)
(* current one has been left, puts the cursor on the lowest index of the   *)
(* current group whose item is neither view nor completed, else on the     *)
(* lowest index whose item is view, else leaves it; the landing item then  *)
(* carries the handler and is claimed.                                     *)
C13_ContinueLanding ==
    [][ last'.op = "continue_item" =>
          LET all == 0 .. LastIndex(current_group)
              free == { i \in all :
                          Unclaimed[current_group][i].state
                              \notin {"view", "completed"} }
              viewed == WithState(Unclaimed, current_group, all, "view")
              landing == IF free # {} THEN Least(free)
                         ELSE IF viewed # {} THEN Least(viewed)
                         ELSE current_order
              item == data'[current_group'][current_order']
          IN  /\ current_group' = current_group
              /\ current_order' = landing
              /\ In(handler_name, item.handlers)
              /\ item.state = IF auto_print THEN "completed"
                              ELSE IF Unclaimed[current_group][landing].state
                                         = "completed"
                                   THEN "completed" ELSE "view" ]_vars

(* continue_item went back, past a completed item, to a free item before  *)
(* the cursor.                                                             *)
C13_Witness ==
    /\ last.op = "continue_item"
    /\ ~auto_print
    /\ current_group = last.group
    /\ last.order = 2
    /\ current_order = 1
    /\ data[current_group][0].state = "completed"

(* C14: in manual mode with group_navigation off, next_item at the last    *)
(* index of a group and previous_item at index 0 leave the cursor where it *)
(* is, on every repetition, and, the handler being recorded on the cursor  *)
(* item, leave every item's state and set of handlers as they were.        *)
C14_BoundaryNoOp ==
    [][ ( /\ ~auto_print
          /\ ~group_navigation
          /\ \/ last'.op = "next_item"
                   /\ current_order = LastIndex(current_group)
             \/ last'.op = "previous_item" /\ current_order = 0 )
        => /\ current_group' = current_group
           /\ current_order' = current_order
           /\ In(handler_name, CurrentItem.handlers)
                => \A p \in Positions :
                      LET old == data[p[1]][p[2]]
                          new == data'[p[1]][p[2]]
                      IN  /\ new.state = old.state
                          /\ { new.handlers[k] : k \in 1 .. Len(new.handlers) }
                               = { old.handlers[k] : k \in 1 .. Len(old.handlers) }
      ]_vars

(* Manual previous_item at index 0 of a longer group stayed on an item    *)
(* that another handler holds as well.                                     *)
C14_Witness ==
    /\ last.op = "previous_item"
    /\ ~auto_print
    /\ ~group_navigation
    /\ <<last.group, last.order>> = <<current_group, 0>>
    /\ current_order = 0
    /\ LastIndex(current_group) >= 1
    /\ CurrentItem = [state |-> "view",
                      handlers |-> <<OtherHandler, handler_name>>]

(* C15 as stated: for an item that is None with no handlers, the claim     *)
(* immediately followed by the unclaim of the same handler restores state  *)
(* None and no handlers, whatever auto_print is.                           *)
C15_RoundTripInEveryMode ==
    \A p \in Positions :
        LET item == data[p[1]][p[2]]
        IN  item = [state |-> "None", handlers |-> <<>>]
               => leave_item(view_item(item, auto_print)) = item

(* C15 amended: with auto_print off, the claim immediately followed by the *)
(* unclaim restores state None and no handlers; with auto_print on the     *)
(* item is left completed with no handlers.                                *)
C15_RoundTripByMode ==
    \A p \in Positions :
        LET item == data[p[1]][p[2]]
        IN  item = [state |-> "None", handlers |-> <<>>]
               => leave_item(view_item(item, auto_print))
                    = IF auto_print
                      THEN [state |-> "completed", handlers |-> <<>>]
                      ELSE item

(* In manual mode the cursor was on an item and left it: the item is None  *)
(* with no handlers again, next to one still untouched.                    *)
C15_Witness ==
    /\ last.op \in Movement
    /\ ~auto_print
    /\ CursorMoved
    /\ LeftItem = [state |-> "None", handlers |-> <<>>]
    /\ \E p \in Positions :
          /\ p \notin {<<current_group, current_order>>, <<last.group, last.order>>}
          /\ data[p[1]][p[2]] = [state |-> "None", handlers |-> <<>>]

(* C16: mark_current_item_as_complete sets the state of the item under the *)
(* cursor to completed and changes nothing else: that item's handlers,     *)
(* every other item, the cursor and both flags stay; a second call in a    *)
(* row changes nothing at all.                                             *)
C16_MarkCompleteOnly ==
    [][ last'.op = "mark_current_item_as_complete" =>
          /\ \A p \in Positions :
                IF p = <<current_group, current_order>>
                THEN /\ data'[p[1]][p[2]].state = "completed"
                     /\ data'[p[1]][p[2]].handlers = data[p[1]][p[2]].handlers
                ELSE data'[p[1]][p[2]] = data[p[1]][p[2]]
          /\ DOMAIN data' = DOMAIN data
          /\ \A g \in DOMAIN data : DOMAIN data'[g] = DOMAIN data[g]
          /\ UNCHANGED <<current_group, current_order, group_navigation,
                         auto_print>>
          /\ mark_current_item_as_complete(data', current_group',
                                           current_order') = data' ]_vars

(* In manual mode the item under the cursor, held by another handler too,  *)
(* has just been marked completed.                                         *)
C16_Witness ==
    /\ last.op = "mark_current_item_as_complete"
    /\ ~auto_print
    /\ CurrentItem = [state |-> "completed",
                      handlers |-> <<OtherHandler, handler_name>>]
    /\ <<last.group, last.order>> = <<current_group, current_order>>

----------------------------------------------------------------------------
(* Construction *)

HasNoGroup(d) == Size(d) = 0

HasEmptyGroup(d) == \E g \in DOMAIN d : Size(d[g]) = 0

HasBadState(d) ==
    \E g \in DOMAIN d : \E i \in DOMAIN d[g] : d[g][i].state \notin States

ValidDataset(d) == ~HasNoGroup(d) /\ ~HasEmptyGroup(d) /\ ~HasBadState(d)

(* C17: the constructor raises, and yields no navigator, whenever the      *)
(* supplied dataset has no group or has an empty group at any position.    *)
C17_EmptyGroupRejected ==
    [][ (last.op = "supplied" /\ (HasNoGroup(data) \/ HasEmptyGroup(data)))
          => last'.op = "init_raised" ]_vars

(* C18: the constructor raises whenever some item of the supplied dataset, *)
(* at any position, has a state outside None, view, completed, whatever    *)
(* auto_print is.                                                          *)
C18_BadStateRejected ==
    [][ (last.op = "supplied" /\ HasBadState(data))
          => last'.op = "init_raised" ]_vars

(* C19: for every valid dataset and every value of the two flags the       *)
(* constructor yields a navigator whose cursor is (0, 0) and whose current *)
(* item is the item at (0, 0).                                             *)
C19_StartsAtOrigin ==
    [][ (last.op = "supplied" /\ ValidDataset(data))
          => /\ last'.op = "init"
             /\ current_group' = 0
             /\ current_order' = 0
             /\ get_current_item(data', current_group', current_order')
                  = data'[0][0]
             /\ In(handler_name, data'[0][0].handlers)
             /\ \A g \in DOMAIN data : \A i \in DOMAIN data[g] :
                   <<g, i>> # <<0, 0>> => data'[g][i] = data[g][i] ]_vars

(* A navigator built with both flags on over two groups, the first of      *)
(* which has several items.                                                *)
C19_Witness ==
    /\ last.op = "init"
    /\ group_navigation
    /\ auto_print
    /\ Size(data) = 2
    /\ Size(data[0]) >= 2
    /\ ValidDataset(data)
    /\ <<current_group, current_order>> = <<0, 0>>
    /\ In(handler_name, CurrentItem.handlers)

----------------------------------------------------------------------------
(* C20: toggle_autoprint and toggle_group_navigation each flip their own   *)
(* flag and nothing else: the cursor, the other flag and every item stay,  *)
(* so that a second call of the same toggle restores the flag and with it  *)
(* the whole state.                                                        *)
C20_TogglesFlipOwnFlag ==
    [][ /\ last'.op = "toggle_autoprint" =>
              /\ auto_print' = ~auto_print
              /\ ~auto_print' = auto_print
              /\ UNCHANGED <<data, current_group, current_order,
                             group_navigation>>
        /\ last'.op = "toggle_group_navigation" =>
              /\ group_navigation' = ~group_navigation
              /\ ~group_navigation' = group_navigation
              /\ UNCHANGED <<data, current_group, current_order,
                             auto_print>> ]_vars

(* auto_print has just been switched on while the item under the cursor    *)
(* is still 'view'.                                                        *)
C20_Witness ==
    /\ last.op = "toggle_autoprint"
    /\ auto_print
    /\ CurrentItem.state = "view"
    /\ In(handler_name, CurrentItem.handlers)

----------------------------------------------------------------------------
(* Landing in an entered group *)

EnteredNext ==
    last.op \in {"next_item", "next_page"} /\ current_group = last.group + 1

EnteredPrevious ==
    /\ last.op \in {"previous_item", "previous_page"}
    /\ current_group = last.group - 1

(* C24: in manual mode, next_item and next_page that cross into the next   *)
(* group land on its index 0, and previous_item and previous_page that     *)
(* cross into the previous group land on its last index, whatever the      *)
(* states of the items of the entered group.                               *)
C24_ManualEntryAtEdge ==
    ~auto_print =>
        /\ EnteredNext => current_order = 0
        /\ EnteredPrevious => current_order = LastIndex(current_group)

(* The items of group g that are neither view nor completed *)
Free(d, g) == { i \in DOMAIN d[g] : ~Taken(d[g][i]) }

(* C25: in auto mode, next_item and next_page that cross into the next     *)
(* group land on the lowest index of that group whose item is neither view *)
(* nor completed, previous_item and previous_page that cross into the      *)
(* previous group land on the highest such index; when the entered group   *)
(* has no such item they land on index 0, respectively the last index.     *)
C25_AutoEntry ==
    [][ auto_print =>
          /\ (last'.op \in {"next_item", "next_page"}
                /\ current_group' = current_group + 1)
             => current_order' =
                   IF Free(data, current_group') = {} THEN 0
                   ELSE Least(Free(data, current_group'))
          /\ (last'.op \in {"previous_item", "previous_page"}
                /\ current_group' = current_group - 1)
             => current_order' =
                   IF Free(data, current_group') = {}
                   THEN Size(data[current_group']) - 1
                   ELSE Greatest(Free(data, current_group')) ]_vars

(* previous_page in auto mode has entered a group whose last item another  *)
(* handler had completed: the cursor passed it and took the item before.   *)
C25_Witness ==
    /\ auto_print
    /\ EnteredPrevious
    /\ last.op = "previous_page"
    /\ Size(data[current_group]) >= 2
    /\ current_order = LastIndex(current_group) - 1
    /\ data[current_group][LastIndex(current_group)]
          = [state |-> "completed", handlers |-> <<OtherHandler>>]
    /\ CurrentItem.state = "completed"
    /\ In(handler_name, CurrentItem.handlers)

(* C26: a construction that raises leaves the supplied dataset as it was:  *)
(* no item's state or handlers differs from its value before the call.     *)
C26_FailedConstructionKeepsData ==
    [][ (last.op = "supplied" /\ last'.op = "init_raised")
          => data' = data ]_vars


----------------------------------------------------------------------------
(* Repeated next_item *)

LexLeq(g1, o1, g2, o2) == g1 < g2 \/ (g1 = g2 /\ o1 <= o2)

AtLastItem ==
    /\ current_group = Size(data) - 1
    /\ current_order = LastIndex(current_group)

----------------------------------------------------------------------------
(* Resets and start *)

UnsetItem == [state |-> "None", handlers |-> <<>>]

(* The positions a reset covers, by the cursor it is called at *)
ResetScope(op, g, o) ==
    IF op = "reset_current_item" THEN { <<g, o>> }
    ELSE IF op = "reset_current_group" THEN { p \in Positions : p[1] = g }
    ELSE Positions

(* C21: reset_current_item, reset_current_group and reset_all leave the    *)
(* item under the cursor, the items of the current group, respectively     *)
(* every item, with state None and no handlers, whoever held them and      *)
(* whatever their state was; the cursor and every other item stay as they  *)
(* were.                                                                   *)
C21_ResetScope ==
    [][ last'.op \in {"reset_current_item", "reset_current_group", "reset_all"}
          => /\ DOMAIN data' = DOMAIN data
             /\ \A g \in DOMAIN data : DOMAIN data'[g] = DOMAIN data[g]
             /\ \A p \in Positions :
                   data'[p[1]][p[2]] =
                      IF p \in ResetScope(last'.op, current_group,
                                          current_order)
                      THEN UnsetItem
                      ELSE data[p[1]][p[2]]
             /\ UNCHANGED <<current_group, current_order>> ]_vars

(* reset_current_group has been called in a group of several items: all    *)
(* of them, the one under the cursor included, are None without handlers,  *)
(* while an item of the other group is still completed and held by the     *)
(* other handler.                                                          *)
C21_Witness ==
    /\ last.op = "reset_current_group"
    /\ Size(data) = 2
    /\ Size(data[current_group]) >= 2
    /\ \A i \in DOMAIN data[current_group] :
          data[current_group][i] = UnsetItem
    /\ \E g \in DOMAIN data : \E i \in DOMAIN data[g] :
          /\ g # current_group
          /\ data[g][i] = [state |-> "completed", handlers |-> <<OtherHandler>>]

(* C22: start(g) for an existing group g puts the cursor on (g, 0) in      *)
(* both modes, whatever the state of the item there; the item left no      *)
(* longer records the navigator and, once nobody holds it, is None unless  *)
(* completed; the item at (g, 0) records the navigator and is completed    *)
(* in auto mode, and view or still completed in manual mode.               *)
C22_StartLanding ==
    last.op = "start" =>
        /\ current_group = last.target
        /\ current_order = 0
        /\ In(handler_name, CurrentItem.handlers)
        /\ CurrentItem.state \in {"view", "completed"}
        /\ auto_print => CurrentItem.state = "completed"
        /\ CursorMoved =>
              /\ ~In(handler_name, LeftItem.handlers)
              /\ LeftItem.handlers = <<>> =>
                    LeftItem.state \in {"None", "completed"}

(* start(1) in manual mode, called in the first group, has landed on the   *)
(* first item of the second group although the other handler is viewing    *)
(* it and the item after it is free.                                       *)
C22_Witness ==
    /\ last.op = "start"
    /\ ~auto_print
    /\ last.group = 0
    /\ last.target = 1
    /\ <<current_group, current_order>> = <<1, 0>>
    /\ CurrentItem = [state |-> "view",
                      handlers |-> <<OtherHandler, handler_name>>]
    /\ Size(data[1]) >= 2
    /\ data[1][1] = UnsetItem


----------------------------------------------------------------------------
(* Two instances on one dataset *)

(* The names of the instances whose cursor is on (g, i) *)
CursorsOn(g, i) ==
    { h \in {handler_name} : <<current_group, current_order>> = <<g, i>> }
    \cup { h \in {OtherHandler} :
              peer # NoPeer /\ <<peer.group, peer.order>> = <<g, i>> }

Names(hs) == { hs[k] : k \in 1 .. Len(hs) }

(* C23: with two instances of distinct handler names in manual mode on a   *)
(* dataset that started all None without handlers, after every call the    *)
(* handlers of each item are exactly the instances whose cursor is on the  *)
(* item, each once, and the item is view when there is such an instance    *)
(* and None when there is none.                                            *)
C23_HandlersAreCursors ==
    \A p \in Positions :
        LET item == data[p[1]][p[2]]
        IN  /\ Names(item.handlers) = CursorsOn(p[1], p[2])
            /\ Len(item.handlers) = Cardinality(CursorsOn(p[1], p[2]))
            /\ item.state =
                  IF CursorsOn(p[1], p[2]) # {} THEN "view" ELSE "None"

(* The peer's next_item has just brought it onto the item the navigator   *)
(* is on, at index 1: both names are recorded there, and the item the peer *)
(* left is None again.                                                     *)
C23_Witness ==
    /\ last.op = "peer_next_item"
    /\ <<last.group, last.order>> = <<0, 0>>
    /\ <<peer.group, peer.order>> = <<0, 1>>
    /\ <<current_group, current_order>> = <<0, 1>>
    /\ CurrentItem = [state |-> "view",
                      handlers |-> <<handler_name, OtherHandler>>]
    /\ data[0][0] = [state |-> "None", handlers |-> <<>>]


=============================================================================
